---- MODULE Spec2Model ----
(***************************************************************************)
(* The ERC-721 contract adapter of the indexer                             *)
(* (src/src/sync/onchain/events/erc721/index.ts): syncCallback decodes a   *)
(* batch of logs, persists the approval and the transfer events and hands  *)
(* the derived MakerInfo batch to the maker-update queue; fixCallback      *)
(* removes the events of an orphaned block.  Every `await` of the source   *)
(* is a point where the other callback may run, so each awaited call is    *)
(* one action.                                                             *)
(***************************************************************************)
EXTENDS Integers, Sequences, FiniteSets, Bags

\* Longest batch of logs handed to one syncCallback invocation.
MaxLogs == 2

VARIABLES
  acceptOrders,       \* config.acceptOrders
  nftApprovalEvents,  \* the approval events table (a bag of rows)
  nftTransferEvents,  \* the transfer events table (a bag of rows)
  syncPc,             \* where the syncCallback invocation stands
  logs,               \* its argument `logs`
  backfill,           \* its argument `backfill`
  approvalEvents,     \* its local `approvalEvents`
  transferEvents,     \* its local `transferEvents`
  makerInfos,         \* its local `makerInfos`
  errorsLogged,       \* logger.error calls it has made
  enqueueCalls,       \* argument lists of its addToOrdersUpdateByMakerQueue calls
  failedAt,           \* the awaited call whose rejection ended it ("" if none)
  fixPc,              \* where the fixCallback invocation stands
  fixBlockHash,       \* its argument `blockHash`
  committed,          \* history: rows this syncCallback invocation inserted
  isRetry,            \* history: this invocation repeats the one whose enqueue failed
  failedBatch,        \* history: the batch the failed enqueue was given
  overlapped,         \* history: the two current invocations ran concurrently
  fixDeleted,         \* history: rows the current fixCallback deleted
  lastFixed           \* history: hash of the fixCallback that completed last, alone

syncVars == <<syncPc, logs, backfill, approvalEvents, transferEvents, makerInfos,
              errorsLogged, enqueueCalls, failedAt>>
fixVars == <<fixPc, fixBlockHash>>
storeVars == <<nftApprovalEvents, nftTransferEvents>>
histVars == <<isRetry, failedBatch, overlapped, fixDeleted, lastFixed>>
vars == <<acceptOrders, storeVars, syncVars, fixVars, committed, histVars>>

----------------------------------------------------------------------------
\* Raw logs.  topics[1] is the event topic, the other topics are the indexed
\* arguments, data holds the non-indexed arguments, one word each.

Absent == "absent"

TransferTopic == "Transfer(address,address,uint256)"
ApprovalForAllTopic == "ApprovalForAll(address,address,bool)"

BlockHashes == {"B1", "B2"}

MkLog(bh, blk, tx, txi, li, topics, data) ==
  [address |-> "0xC0", blockNumber |-> blk, blockHash |-> bh,
   transactionHash |-> tx, transactionIndex |-> txi, logIndex |-> li,
   topics |-> topics, data |-> data]

\* The logs the provider delivers, in the order it delivers them (block,
\* transaction index, log index): block B1 with a transfer, an approval and a
\* Transfer log that no table decodes, and the block B2 that replaces B1 in a
\* reorg and carries the same transaction.
ProviderLogs ==
  << MkLog("B1", 10, "T1", 0, 0, <<TransferTopic, "0xA1", "0xb2", 7>>, <<>>),
     MkLog("B1", 10, "T1", 0, 1, <<ApprovalForAllTopic, "0xA1", "0xb2">>, <<TRUE>>),
     MkLog("B1", 10, "T2", 1, 2, <<TransferTopic, "0xA1">>, <<>>),
     MkLog("B2", 10, "T1", 0, 0, <<TransferTopic, "0xA1", "0xb2", 7>>, <<>>) >>

Min(S) == CHOOSE m \in S : \A x \in S : m <= x

RECURSIVE LogsAt(_)
LogsAt(S) ==
  IF S = {} THEN <<>>
  ELSE <<ProviderLogs[Min(S)]>> \o LogsAt(S \ {Min(S)})

\* Every batch of at most MaxLogs of them, in delivery order.
Batches ==
  {LogsAt(S) : S \in {T \in SUBSET (1..Len(ProviderLogs)) : Cardinality(T) <= MaxLogs}}

----------------------------------------------------------------------------
\* Decoding.  A call that can throw yields [ok |-> FALSE] instead of a value.

Thrown == [ok |-> FALSE]

\* String.prototype.toLowerCase on the addresses in use.
ToLowerCase(s) ==
  CASE s = "0xA1" -> "0xa1"
    [] s = "0xB2" -> "0xb2"
    [] s = "0xC0" -> "0xc0"
    [] OTHER -> s

\* BigNumber.prototype.toString: the decimal digits of a small number.
Digit(n) == <<"0", "1", "2", "3", "4", "5", "6", "7", "8", "9">>[n + 1]

toString(n) == IF n < 10 THEN Digit(n) ELSE Digit(n \div 10) \o Digit(n % 10)

\* parseEvent(log): the BaseEventParams of a log; throws when the block hash,
\* the transaction hash or the log index is missing.
parseEvent(log) ==
  IF log.blockHash = Absent \/ log.transactionHash = Absent \/ log.logIndex < 0
  THEN Thrown
  ELSE [ok |-> TRUE,
        value |-> [address |-> ToLowerCase(log.address),
                   block |-> log.blockNumber,
                   blockHash |-> log.blockHash,
                   txHash |-> log.transactionHash,
                   txIndex |-> log.transactionIndex,
                   logIndex |-> log.logIndex]]

\* Interface.parseLog for an event with `indexed` indexed and `plain`
\* non-indexed arguments: the indexed ones are read from the topics after the
\* event topic, the others from the data words; too few of either throws.
ParseLog(log, names, indexed) ==
  LET plain == Len(names) - indexed
  IN  IF Len(log.topics) < 1 + indexed \/ Len(log.data) < plain
      THEN Thrown
      ELSE [ok |-> TRUE,
            args |-> [i \in 1..Len(names) |->
                        IF i <= indexed THEN log.topics[1 + i]
                        ELSE log.data[i - indexed]]]

\* abi.parseLog(log) for the standard Transfer: three indexed arguments.
AbiParseTransfer(log) == ParseLog(log, <<"from", "to", "tokenId">>, 3)

\* nonStandardAbi.parseLog(log): tokenId is not indexed.
NonStandardAbiParseTransfer(log) == ParseLog(log, <<"from", "to", "tokenId">>, 2)

\* abi.parseLog(log) for ApprovalForAll: two indexed arguments.
AbiParseApprovalForAll(log) == ParseLog(log, <<"owner", "operator", "approved">>, 2)

\* A context built from the transaction index instead of the log index.
ContextOfTransaction(baseParams) ==
  baseParams.txHash \o "-" \o toString(baseParams.txIndex)

Context(baseParams) == baseParams.txHash \o "-" \o toString(baseParams.logIndex)

NoOutput == [approvals |-> <<>>, transfers |-> <<>>, makers |-> <<>>, errors |-> 0]

LoggedError == [approvals |-> <<>>, transfers |-> <<>>, makers |-> <<>>, errors |-> 1]

\* A Transfer case that re-evaluates the sender only.
DecodeTransferForSenderOnly(log, baseParams) ==
  LET first == AbiParseTransfer(log)
      parsedLog == IF first.ok THEN first ELSE NonStandardAbiParseTransfer(log)
  IN  IF ~parsedLog.ok THEN LoggedError
      ELSE LET from == ToLowerCase(parsedLog.args[1])
               to == ToLowerCase(parsedLog.args[2])
               tokenId == toString(parsedLog.args[3])
               context == Context(baseParams)
           IN  [approvals |-> <<>>,
                transfers |-> <<[tokenId |-> tokenId, from |-> from, to |-> to,
                                 amount |-> "1", baseParams |-> baseParams]>>,
                makers |-> <<[context |-> context, side |-> "sell", maker |-> from,
                              contract |-> baseParams.address, tokenId |-> tokenId]>>,
                errors |-> 0]

\* A Transfer case that tries the non-standard table first.
DecodeTransferNonStandardFirst(log, baseParams) ==
  LET first == NonStandardAbiParseTransfer(log)
      parsedLog == IF first.ok THEN first ELSE AbiParseTransfer(log)
  IN  IF ~parsedLog.ok THEN LoggedError
      ELSE LET from == ToLowerCase(parsedLog.args[1])
               to == ToLowerCase(parsedLog.args[2])
               tokenId == toString(parsedLog.args[3])
               context == Context(baseParams)
           IN  [approvals |-> <<>>,
                transfers |-> <<[tokenId |-> tokenId, from |-> from, to |-> to,
                                 amount |-> "1", baseParams |-> baseParams]>>,
                makers |-> <<[context |-> context, side |-> "sell", maker |-> from,
                              contract |-> baseParams.address, tokenId |-> tokenId],
                             [context |-> context, side |-> "sell", maker |-> to,
                              contract |-> baseParams.address, tokenId |-> tokenId]>>,
                errors |-> 0]

\* case abi.getEventTopic("Transfer")
DecodeTransfer(log, baseParams) ==
  LET first == AbiParseTransfer(log)
      parsedLog == IF first.ok THEN first ELSE NonStandardAbiParseTransfer(log)
  IN  IF ~parsedLog.ok THEN LoggedError
      ELSE LET from == ToLowerCase(parsedLog.args[1])
               to == ToLowerCase(parsedLog.args[2])
               tokenId == toString(parsedLog.args[3])
               context == Context(baseParams)
           IN  [approvals |-> <<>>,
                transfers |-> <<[tokenId |-> tokenId, from |-> from, to |-> to,
                                 amount |-> "1", baseParams |-> baseParams]>>,
                makers |-> <<[context |-> context, side |-> "sell", maker |-> from,
                              contract |-> baseParams.address, tokenId |-> tokenId],
                             [context |-> context, side |-> "sell", maker |-> to,
                              contract |-> baseParams.address, tokenId |-> tokenId]>>,
                errors |-> 0]

\* An ApprovalForAll case that re-evaluates the operator instead of the owner.
DecodeApprovalForAllForOperator(log, baseParams) ==
  LET parsedLog == AbiParseApprovalForAll(log)
  IN  IF ~parsedLog.ok THEN LoggedError
      ELSE LET owner == ToLowerCase(parsedLog.args[1])
               operator == ToLowerCase(parsedLog.args[2])
               approved == parsedLog.args[3]
           IN  [approvals |-> <<[owner |-> owner, operator |-> operator,
                                 approved |-> approved, baseParams |-> baseParams]>>,
                transfers |-> <<>>,
                makers |-> <<[context |-> Context(baseParams), side |-> "sell",
                              maker |-> operator, contract |-> baseParams.address,
                              operator |-> operator, approved |-> approved,
                              checkApproval |-> TRUE]>>,
                errors |-> 0]

\* case abi.getEventTopic("ApprovalForAll")
DecodeApprovalForAll(log, baseParams) ==
  LET parsedLog == AbiParseApprovalForAll(log)
  IN  IF ~parsedLog.ok THEN LoggedError
      ELSE LET owner == ToLowerCase(parsedLog.args[1])
               operator == ToLowerCase(parsedLog.args[2])
               approved == parsedLog.args[3]
           IN  [approvals |-> <<[owner |-> owner, operator |-> operator,
                                 approved |-> approved, baseParams |-> baseParams]>>,
                transfers |-> <<>>,
                makers |-> <<[context |-> Context(baseParams), side |-> "sell",
                              maker |-> owner, contract |-> baseParams.address,
                              operator |-> operator, approved |-> approved,
                              checkApproval |-> TRUE]>>,
                errors |-> 0]

\* A loop body whose switch has a default case that throws.
DecodeLogRejectingOtherTopics(log) ==
  LET parsed == parseEvent(log)
  IN  IF ~parsed.ok THEN LoggedError
      ELSE IF log.topics[1] = TransferTopic THEN DecodeTransfer(log, parsed.value)
      ELSE IF log.topics[1] = ApprovalForAllTopic
           THEN DecodeApprovalForAll(log, parsed.value)
      ELSE LoggedError

\* The body of the loop for one log: what it pushes and whether it logs.
DecodeLog(log) ==
  LET parsed == parseEvent(log)
  IN  IF ~parsed.ok THEN LoggedError
      ELSE IF log.topics[1] = TransferTopic THEN DecodeTransfer(log, parsed.value)
      ELSE IF log.topics[1] = ApprovalForAllTopic
           THEN DecodeApprovalForAll(log, parsed.value)
      ELSE NoOutput

Join(acc, out) ==
  [approvals |-> acc.approvals \o out.approvals,
   transfers |-> acc.transfers \o out.transfers,
   makers |-> acc.makers \o out.makers,
   errors |-> acc.errors + out.errors]

\* A loop that walks the batch from its last log to its first.
RECURSIVE DecodeFromLast(_, _, _)
DecodeFromLast(ls, i, acc) ==
  IF i > Len(ls) THEN acc
  ELSE DecodeFromLast(ls, i + 1, Join(acc, DecodeLog(ls[Len(ls) + 1 - i])))

\* The loop with the try inside it: a log that throws is logged and skipped.
RECURSIVE DecodeFrom(_, _, _)
DecodeFrom(ls, i, acc) ==
  IF i > Len(ls) THEN acc
  ELSE DecodeFrom(ls, i + 1, Join(acc, DecodeLog(ls[i])))

\* A loop with the try around it: the first log that throws ends the loop.
RECURSIVE DecodeUntilThrow(_, _, _)
DecodeUntilThrow(ls, i, acc) ==
  IF i > Len(ls) THEN acc
  ELSE LET out == DecodeLog(ls[i])
       IN  IF out.errors > 0 THEN Join(acc, out)
           ELSE DecodeUntilThrow(ls, i + 1, Join(acc, out))

DecodeLogsAborting(ls) == DecodeUntilThrow(ls, 1, NoOutput)

DecodeLogs(ls) == DecodeFrom(ls, 1, NoOutput)

----------------------------------------------------------------------------
\* The event store.  A table is a bag of rows; its primary key is
\* (block_hash, tx_hash, log_index), as for every events table.

\* A key that leaves the block hash out.
PrimaryKeyWithoutBlockHash(row) == <<row.baseParams.txHash, row.baseParams.logIndex>>

PrimaryKey(row) ==
  <<row.baseParams.blockHash, row.baseParams.txHash, row.baseParams.logIndex>>

Rows(table) == BagToSet(table)

\* INSERT ... ON CONFLICT DO NOTHING of one row.
Insert(table, row) ==
  IF \E r \in Rows(table) : PrimaryKey(r) = PrimaryKey(row)
  THEN table
  ELSE table (+) SetToBag({row})

RECURSIVE InsertFrom(_, _, _)
InsertFrom(table, events, i) ==
  IF i > Len(events) THEN table
  ELSE InsertFrom(Insert(table, events[i]), events, i + 1)

\* addNftApprovalEvents / addNftTransferEvents: the table after the call.
AddEvents(table, events) == InsertFrom(table, events, 1)

\* removeNftApprovalEvents / removeNftTransferEvents: DELETE ... WHERE
\* block_hash = blockHash.
RemoveEvents(table, blockHash) ==
  LET kept == {r \in Rows(table) : r.baseParams.blockHash # blockHash}
  IN  [r \in kept |-> table[r]]

----------------------------------------------------------------------------
\* syncCallback

SyncRunning == syncPc \in {"addApprovals", "addTransfers", "enqueue"}
FixRunning == fixPc \in {"removeApprovals", "removeTransfers"}

\* if (!backfill)
EnqueueGuardIgnoringAcceptOrders(bf) == ~bf

\* if (config.acceptOrders)
EnqueueGuardIgnoringBackfill(bf) == acceptOrders

\* if (!backfill && config.acceptOrders)
EnqueueGuard(bf) == ~bf /\ acceptOrders

\* A syncCallback whose loop has no catch: the first log that throws rejects
\* the invocation before any awaited call.
SyncCallbackWithoutCatch(ls, bf) ==
  /\ ~SyncRunning
  /\ LET out == DecodeLogsAborting(ls)
         again == syncPc = "failed" /\ failedAt = "enqueue" /\ ls = logs /\ bf = backfill
     IN  /\ logs' = ls
         /\ backfill' = bf
         /\ approvalEvents' = out.approvals
         /\ transferEvents' = out.transfers
         /\ makerInfos' = out.makers
         /\ errorsLogged' = 0
         /\ isRetry' = again
         /\ failedBatch' = IF again THEN failedBatch ELSE <<>>
         /\ failedAt' = IF out.errors > 0 THEN "loop" ELSE ""
         /\ syncPc' = IF out.errors > 0 THEN "failed" ELSE "addApprovals"
  /\ enqueueCalls' = <<>>
  /\ committed' = {}
  /\ overlapped' = FixRunning
  /\ lastFixed' = Absent
  /\ UNCHANGED <<acceptOrders, storeVars, fixVars, fixDeleted>>

\* The call and the synchronous part of its body: the loop over the logs, up
\* to the first await.  The orchestrator calls again once the previous
\* invocation has settled; after a failure it may call with the same batch.
SyncCallback(ls, bf) ==
  /\ ~SyncRunning
  /\ LET out == DecodeLogs(ls)
         again == syncPc = "failed" /\ failedAt = "enqueue" /\ ls = logs /\ bf = backfill
     IN  /\ logs' = ls
         /\ backfill' = bf
         /\ approvalEvents' = out.approvals
         /\ transferEvents' = out.transfers
         /\ makerInfos' = out.makers
         /\ errorsLogged' = out.errors
         /\ isRetry' = again
         /\ failedBatch' = IF again THEN failedBatch ELSE <<>>
  /\ enqueueCalls' = <<>>
  /\ failedAt' = ""
  /\ committed' = {}
  /\ syncPc' = "addApprovals"
  /\ overlapped' = FixRunning
  /\ lastFixed' = Absent
  /\ UNCHANGED <<acceptOrders, storeVars, fixVars, fixDeleted>>

\* A rejection that takes back the rows the invocation inserted.
SyncThrowsUndoingWrites(at) ==
  /\ syncPc' = "failed"
  /\ failedAt' = at
  /\ nftApprovalEvents' =
       [r \in Rows(nftApprovalEvents) \ committed |-> nftApprovalEvents[r]]
  /\ nftTransferEvents' =
       [r \in Rows(nftTransferEvents) \ committed |-> nftTransferEvents[r]]
  /\ UNCHANGED <<acceptOrders, logs, backfill, approvalEvents, transferEvents,
                 makerInfos, errorsLogged, enqueueCalls, committed, fixVars, histVars>>

\* The rejection of an awaited call leaves syncCallback at once.
SyncThrows(at) ==
  /\ syncPc' = "failed"
  /\ failedAt' = at
  /\ UNCHANGED <<acceptOrders, storeVars, logs, backfill, approvalEvents, transferEvents,
                 makerInfos, errorsLogged, enqueueCalls, committed, fixVars, histVars>>

\* A syncCallback that hands the maker infos to the queue as soon as the
\* approvals are stored, before the transfers are.
AddNftApprovalEventsThenEnqueue ==
  /\ syncPc = "addApprovals"
  /\ nftApprovalEvents' = AddEvents(nftApprovalEvents, approvalEvents)
  /\ committed' = committed \cup (Rows(nftApprovalEvents') \ Rows(nftApprovalEvents))
  /\ enqueueCalls' = IF EnqueueGuard(backfill) THEN Append(enqueueCalls, makerInfos)
                     ELSE enqueueCalls
  /\ syncPc' = "addTransfers"
  /\ UNCHANGED <<acceptOrders, nftTransferEvents, logs, backfill, approvalEvents,
                 transferEvents, makerInfos, errorsLogged, failedAt,
                 fixVars, histVars>>

\* await addNftApprovalEvents(approvalEvents)
AddNftApprovalEvents ==
  /\ syncPc = "addApprovals"
  /\ nftApprovalEvents' = AddEvents(nftApprovalEvents, approvalEvents)
  /\ committed' = committed \cup (Rows(nftApprovalEvents') \ Rows(nftApprovalEvents))
  /\ syncPc' = "addTransfers"
  /\ UNCHANGED <<acceptOrders, nftTransferEvents, logs, backfill, approvalEvents,
                 transferEvents, makerInfos, errorsLogged, enqueueCalls, failedAt,
                 fixVars, histVars>>

\* The call rejects (a store I/O error); with nothing to add it is a no-op.
AddNftApprovalEventsFails ==
  /\ syncPc = "addApprovals"
  /\ approvalEvents # <<>>
  /\ SyncThrows("addNftApprovalEvents")

\* await addNftTransferEvents(transferEvents), then the test of line 129 and,
\* when it passes, the call of addToOrdersUpdateByMakerQueue(makerInfos).
AddNftTransferEvents ==
  /\ syncPc = "addTransfers"
  /\ nftTransferEvents' = AddEvents(nftTransferEvents, transferEvents)
  /\ committed' = committed \cup (Rows(nftTransferEvents') \ Rows(nftTransferEvents))
  /\ IF EnqueueGuard(backfill)
     THEN /\ enqueueCalls' = Append(enqueueCalls, makerInfos)
          /\ syncPc' = "enqueue"
     ELSE /\ enqueueCalls' = enqueueCalls
          /\ syncPc' = "done"
  /\ UNCHANGED <<acceptOrders, nftApprovalEvents, logs, backfill, approvalEvents,
                 transferEvents, makerInfos, errorsLogged, failedAt, fixVars, histVars>>

AddNftTransferEventsFails ==
  /\ syncPc = "addTransfers"
  /\ transferEvents # <<>>
  /\ SyncThrows("addNftTransferEvents")

\* await addToOrdersUpdateByMakerQueue(makerInfos) resolves.
AddToOrdersUpdateByMakerQueue ==
  /\ syncPc = "enqueue"
  /\ syncPc' = "done"
  /\ UNCHANGED <<acceptOrders, storeVars, logs, backfill, approvalEvents, transferEvents,
                 makerInfos, errorsLogged, enqueueCalls, failedAt, committed, fixVars,
                 histVars>>

\* A syncCallback that undid its writes when the enqueue is rejected.
AddToOrdersUpdateByMakerQueueFailsRollingBack ==
  /\ syncPc = "enqueue"
  /\ syncPc' = "failed"
  /\ failedAt' = "enqueue"
  /\ failedBatch' = makerInfos
  /\ nftApprovalEvents' = [r \in Rows(nftApprovalEvents) \ committed |-> nftApprovalEvents[r]]
  /\ nftTransferEvents' = [r \in Rows(nftTransferEvents) \ committed |-> nftTransferEvents[r]]
  /\ UNCHANGED <<acceptOrders, logs, backfill, approvalEvents, transferEvents,
                 makerInfos, errorsLogged, enqueueCalls, committed, fixVars,
                 isRetry, overlapped, fixDeleted, lastFixed>>

\* await addToOrdersUpdateByMakerQueue(makerInfos) rejects: nothing catches it.
AddToOrdersUpdateByMakerQueueFails ==
  /\ syncPc = "enqueue"
  /\ syncPc' = "failed"
  /\ failedAt' = "enqueue"
  /\ failedBatch' = makerInfos
  /\ UNCHANGED <<acceptOrders, storeVars, logs, backfill, approvalEvents, transferEvents,
                 makerInfos, errorsLogged, enqueueCalls, committed, fixVars,
                 isRetry, overlapped, fixDeleted, lastFixed>>

----------------------------------------------------------------------------
\* fixCallback

\* The call, up to the first await.
FixCallback(blockHash) ==
  /\ ~FixRunning
  /\ fixBlockHash' = blockHash
  /\ fixPc' = "removeApprovals"
  /\ fixDeleted' = {}
  /\ overlapped' = SyncRunning
  /\ UNCHANGED <<acceptOrders, storeVars, syncVars, committed, isRetry, failedBatch,
                 lastFixed>>

FixThrows ==
  /\ fixPc' = "failed"
  /\ lastFixed' = Absent
  /\ UNCHANGED <<acceptOrders, storeVars, syncVars, committed, fixBlockHash, isRetry,
                 failedBatch, overlapped, fixDeleted>>

\* A fixCallback that forgot the transfers.
RemoveNftApprovalEventsOnly ==
  /\ fixPc = "removeApprovals"
  /\ nftApprovalEvents' = RemoveEvents(nftApprovalEvents, fixBlockHash)
  /\ fixDeleted' = fixDeleted \cup (Rows(nftApprovalEvents) \ Rows(nftApprovalEvents'))
  /\ fixPc' = "done"
  /\ lastFixed' = IF overlapped THEN Absent ELSE fixBlockHash
  /\ UNCHANGED <<acceptOrders, nftTransferEvents, syncVars, committed, fixBlockHash,
                 isRetry, failedBatch, overlapped>>

\* await removeNftApprovalEvents(blockHash)
RemoveNftApprovalEvents ==
  /\ fixPc = "removeApprovals"
  /\ nftApprovalEvents' = RemoveEvents(nftApprovalEvents, fixBlockHash)
  /\ fixDeleted' = fixDeleted \cup (Rows(nftApprovalEvents) \ Rows(nftApprovalEvents'))
  /\ fixPc' = "removeTransfers"
  /\ UNCHANGED <<acceptOrders, nftTransferEvents, syncVars, committed, fixBlockHash,
                 isRetry, failedBatch, overlapped, lastFixed>>

RemoveNftApprovalEventsFails ==
  /\ fixPc = "removeApprovals"
  /\ FixThrows

\* A removal that is not restricted to the block hash.
RemoveNftTransferEventsOfEveryBlock ==
  /\ fixPc = "removeTransfers"
  /\ nftTransferEvents' = EmptyBag
  /\ fixDeleted' = fixDeleted \cup Rows(nftTransferEvents)
  /\ fixPc' = "done"
  /\ lastFixed' = IF overlapped THEN Absent ELSE fixBlockHash
  /\ UNCHANGED <<acceptOrders, nftApprovalEvents, syncVars, committed, fixBlockHash,
                 isRetry, failedBatch, overlapped>>

\* await removeNftTransferEvents(blockHash)
RemoveNftTransferEvents ==
  /\ fixPc = "removeTransfers"
  /\ nftTransferEvents' = RemoveEvents(nftTransferEvents, fixBlockHash)
  /\ fixDeleted' = fixDeleted \cup (Rows(nftTransferEvents) \ Rows(nftTransferEvents'))
  /\ fixPc' = "done"
  /\ lastFixed' = IF overlapped THEN Absent ELSE fixBlockHash
  /\ UNCHANGED <<acceptOrders, nftApprovalEvents, syncVars, committed, fixBlockHash,
                 isRetry, failedBatch, overlapped>>

RemoveNftTransferEventsFails ==
  /\ fixPc = "removeTransfers"
  /\ FixThrows

----------------------------------------------------------------------------

Init ==
  /\ acceptOrders \in BOOLEAN
  /\ nftApprovalEvents = EmptyBag
  /\ nftTransferEvents = EmptyBag
  /\ syncPc = "idle"
  /\ logs = <<>>
  /\ backfill = FALSE
  /\ approvalEvents = <<>>
  /\ transferEvents = <<>>
  /\ makerInfos = <<>>
  /\ errorsLogged = 0
  /\ enqueueCalls = <<>>
  /\ failedAt = ""
  /\ committed = {}
  /\ fixPc = "idle"
  /\ fixBlockHash = Absent
  /\ isRetry = FALSE
  /\ failedBatch = <<>>
  /\ overlapped = FALSE
  /\ fixDeleted = {}
  /\ lastFixed = Absent

Next ==
  \/ \E ls \in Batches, bf \in BOOLEAN : SyncCallback(ls, bf)
  \/ AddNftApprovalEvents
  \/ AddNftApprovalEventsFails
  \/ AddNftTransferEvents
  \/ AddNftTransferEventsFails
  \/ AddToOrdersUpdateByMakerQueue
  \/ AddToOrdersUpdateByMakerQueueFails
  \/ \E blockHash \in BlockHashes : FixCallback(blockHash)
  \/ RemoveNftApprovalEvents
  \/ RemoveNftApprovalEventsFails
  \/ RemoveNftTransferEvents
  \/ RemoveNftTransferEventsFails

Spec == Init /\ [][Next]_vars

----------------------------------------------------------------------------
\* One invocation of syncCallback on any batch, whatever its logs and their
\* order, against an empty store and with no fixCallback beside it.

\* Longest batch of that invocation.
MaxCallLogs == 3

ApprovalTopic == "Approval(address,address,uint256)"

\* A Transfer that both tables decode (the primary one reads token 7 from the
\* topics, the non-standard one would read 9 from the data), an
\* ApprovalForAll, a Transfer only the non-standard table decodes, a Transfer
\* and an ApprovalForAll that no table decodes, a log of another event, and a
\* log without a block hash.
AnyLogs ==
  { MkLog("B1", 10, "T1", 0, 0, <<TransferTopic, "0xA1", "0xb2", 7>>, <<9>>),
    MkLog("B1", 10, "T1", 0, 1, <<ApprovalForAllTopic, "0xA1", "0xB2">>, <<TRUE>>),
    MkLog("B1", 10, "T2", 1, 2, <<TransferTopic, "0xB2", "0xA1">>, <<12>>),
    MkLog("B1", 10, "T2", 1, 3, <<TransferTopic, "0xA1">>, <<>>),
    MkLog("B1", 10, "T2", 1, 4, <<ApprovalForAllTopic, "0xA1">>, <<>>),
    MkLog("B1", 10, "T3", 2, 5, <<ApprovalTopic, "0xA1", "0xb2", 7>>, <<>>),
    MkLog(Absent, 10, "T3", 2, 6, <<TransferTopic, "0xA1", "0xb2", 7>>, <<>>) }

RECURSIVE SeqsUpTo(_, _)
SeqsUpTo(S, n) ==
  IF n = 0 THEN {<<>>}
  ELSE LET shorter == SeqsUpTo(S, n - 1)
       IN  shorter \cup {Append(q, x) : q \in shorter, x \in S}

\* Every batch of at most MaxCallLogs of them, in any order, repeats included.
AnyBatches == SeqsUpTo(AnyLogs, MaxCallLogs)

CallNext ==
  \/ /\ syncPc = "idle"
     /\ \E ls \in AnyBatches, bf \in BOOLEAN : SyncCallback(ls, bf)
  \/ AddNftApprovalEvents
  \/ AddNftApprovalEventsFails
  \/ AddNftTransferEvents
  \/ AddNftTransferEventsFails
  \/ AddToOrdersUpdateByMakerQueue
  \/ AddToOrdersUpdateByMakerQueueFails

CallSpec == Init /\ [][CallNext]_vars

----------------------------------------------------------------------------
\* What the properties below speak of.

Range(seq) == {seq[i] : i \in 1..Len(seq)}

\* The dedup key of an event or a row: (blockHash, txHash, logIndex).
DedupKey(e) == <<e.baseParams.blockHash, e.baseParams.txHash, e.baseParams.logIndex>>

RECURSIVE CopiesOf(_, _)
CopiesOf(table, S) ==
  IF S = {} THEN 0
  ELSE LET r == CHOOSE x \in S : TRUE
       IN  table[r] + CopiesOf(table, S \ {r})

\* Number of rows of a table stored under a dedup key.
RowCount(table, key) == CopiesOf(table, {r \in Rows(table) : DedupKey(r) = key})

AllStored(table, events) == \A e \in Range(events) : RowCount(table, DedupKey(e)) = 1

RowsOfBlock(table, blockHash) == {r \in Rows(table) : r.baseParams.blockHash = blockHash}

\* The steps in which an awaited store call of syncCallback resolves.
ApprovalsAdded == syncPc = "addApprovals" /\ syncPc' = "addTransfers"
TransfersAdded == syncPc = "addTransfers" /\ syncPc' \in {"enqueue", "done"}

\* The steps in which an awaited store call of fixCallback resolves.
ApprovalsRemoved == fixPc = "removeApprovals" /\ fixPc' \in {"removeTransfers", "done"}
TransfersRemoved == fixPc = "removeTransfers" /\ fixPc' = "done"

EnqueueInvoked == enqueueCalls # <<>> \/ syncPc = "enqueue"

\* C1: a syncCallback invocation with backfill = true never calls
\* addToOrdersUpdateByMakerQueue, whatever the logs decode to and whatever
\* acceptOrders is.
C1_BackfillSuppression == backfill => ~EnqueueInvoked

\* A backfill invocation that derived maker infos ran to its end with
\* acceptOrders on.
C1_Witness ==
  backfill /\ acceptOrders /\ syncPc = "done" /\ makerInfos # <<>> /\ committed # {}

\* C2: no table ever holds two rows under one dedup key; every store add
\* leaves exactly one row under the key of each event it was given, also when
\* the event is delivered again; and an add whose events are all stored
\* already leaves the table as it was.
C2_IdempotentPersistence ==
  /\ [](\A table \in {nftApprovalEvents, nftTransferEvents} :
          \A r \in Rows(table) : RowCount(table, DedupKey(r)) = 1)
  /\ [][/\ ApprovalsAdded =>
             /\ AllStored(nftApprovalEvents', approvalEvents)
             /\ AllStored(nftApprovalEvents, approvalEvents)
                  => nftApprovalEvents' = nftApprovalEvents
        /\ TransfersAdded =>
             /\ AllStored(nftTransferEvents', transferEvents)
             /\ AllStored(nftTransferEvents, transferEvents)
                  => nftTransferEvents' = nftTransferEvents]_vars

\* A second delivery of the same events ran to its end and inserted nothing
\* (no fixCallback was ever called, so the rows are those of the first delivery).
C2_Witness ==
  /\ syncPc = "done" /\ fixPc = "idle"
  /\ approvalEvents # <<>> /\ transferEvents # <<>>
  /\ committed = {}
  /\ AllStored(nftApprovalEvents, approvalEvents)
  /\ AllStored(nftTransferEvents, transferEvents)

\* C3: each removal of fixCallback(B) deletes every row of its table with block
\* hash B and keeps every other row as it was, in both tables; and a
\* fixCallback(B) that completes after the adds (no syncCallback in flight
\* while it ran) leaves no approval row and no transfer row with block hash B.
C3_ReorgCorrectness ==
  [][/\ ApprovalsRemoved =>
          /\ RowsOfBlock(nftApprovalEvents', fixBlockHash) = {}
          /\ Rows(nftApprovalEvents') =
               Rows(nftApprovalEvents) \ RowsOfBlock(nftApprovalEvents, fixBlockHash)
          /\ \A r \in Rows(nftApprovalEvents') : nftApprovalEvents'[r] = nftApprovalEvents[r]
          /\ nftTransferEvents' = nftTransferEvents
     /\ TransfersRemoved =>
          /\ RowsOfBlock(nftTransferEvents', fixBlockHash) = {}
          /\ Rows(nftTransferEvents') =
               Rows(nftTransferEvents) \ RowsOfBlock(nftTransferEvents, fixBlockHash)
          /\ \A r \in Rows(nftTransferEvents') : nftTransferEvents'[r] = nftTransferEvents[r]
          /\ nftApprovalEvents' = nftApprovalEvents
     /\ (fixPc # "done" /\ fixPc' = "done" /\ ~overlapped) =>
          /\ RowsOfBlock(nftApprovalEvents', fixBlockHash) = {}
          /\ RowsOfBlock(nftTransferEvents', fixBlockHash) = {}]_vars

\* A fixCallback nothing overlapped has completed: it deleted an approval row
\* and a transfer row of its block, and a row of the other block is still there.
C3_Witness ==
  /\ fixPc = "done" /\ ~overlapped
  /\ fixDeleted \cap Range(approvalEvents) # {}
  /\ fixDeleted \cap Range(transferEvents) # {}
  /\ RowsOfBlock(nftApprovalEvents, fixBlockHash) = {}
  /\ RowsOfBlock(nftTransferEvents, fixBlockHash) = {}
  /\ Rows(nftTransferEvents) # {}

\* The logs of a batch that throw inside the loop, and those that yield an event.
ThrowingLogs(ls) == {i \in 1..Len(ls) : DecodeLog(ls[i]).errors = 1}
EventLogs(ls) ==
  {i \in 1..Len(ls) : Len(DecodeLog(ls[i]).approvals) + Len(DecodeLog(ls[i]).transfers) = 1}

OneMalformed(ls) ==
  /\ Cardinality(ThrowingLogs(ls)) = 1
  /\ Cardinality(EventLogs(ls)) = Len(ls) - 1

\* C4: of a batch of N logs of which exactly one is malformed and the others
\* decode, syncCallback logs one failure and accumulates N - 1 events, and the
\* store adds leave every one of them stored.
C4_PartialFailureTolerance ==
  /\ []((syncPc # "idle" /\ OneMalformed(logs)) =>
          /\ errorsLogged = 1
          /\ Len(approvalEvents) + Len(transferEvents) = Len(logs) - 1
          /\ Cardinality(Range(approvalEvents) \cup Range(transferEvents)) = Len(logs) - 1)
  /\ [][OneMalformed(logs) =>
          /\ ApprovalsAdded => AllStored(nftApprovalEvents', approvalEvents)
          /\ TransfersAdded => AllStored(nftTransferEvents', transferEvents)]_vars

\* A batch of two logs, the first of them malformed, was processed to the end:
\* one failure logged, the other log's event inserted.
C4_Witness ==
  /\ syncPc = "done" /\ Len(logs) = 2 /\ ThrowingLogs(logs) = {1}
  /\ errorsLogged = 1
  /\ Cardinality(committed) = 1
  /\ AllStored(nftTransferEvents, transferEvents)

\* C5 (as claimed): when a store write of an invocation fails, none of the
\* events of that invocation has been committed.
C5_AllOrNothing == syncPc = "failed" => committed = {}

\* C6 (as claimed): when a fixCallback(B) and a syncCallback that ran
\* concurrently with it have both completed, no row that the fixCallback
\* deleted is in the store.
C6_NoResurrection ==
  (fixPc = "done" /\ syncPc \in {"done", "failed"} /\ overlapped) =>
    fixDeleted \cap (Rows(nftApprovalEvents) \cup Rows(nftTransferEvents)) = {}

\* C7 (as claimed): every step of an invocation that changes the store leaves
\* all the events of the invocation stored, so that no reader sees some of
\* them without the others.
C7_SingleBatch ==
  [][(SyncRunning /\ syncPc' # syncPc /\ storeVars' # storeVars) =>
       /\ AllStored(nftApprovalEvents', approvalEvents)
       /\ AllStored(nftTransferEvents', transferEvents)]_vars

\* C8: with acceptOrders off the enqueue is never called; when the store adds
\* have resolved it is called if and only if backfill is false and
\* acceptOrders is true; and under every setting of the two flags each store
\* add leaves the events it was given stored.
C8_AcceptOrdersToggle ==
  /\ [](~acceptOrders => ~EnqueueInvoked)
  /\ [](EnqueueInvoked => (~backfill /\ acceptOrders))
  /\ [][/\ TransfersAdded =>
             /\ (syncPc' = "enqueue") <=> (~backfill /\ acceptOrders)
             /\ (enqueueCalls' = <<makerInfos>>) <=> (~backfill /\ acceptOrders)
             /\ AllStored(nftTransferEvents', transferEvents)
        /\ ApprovalsAdded => AllStored(nftApprovalEvents', approvalEvents)]_vars

\* A live invocation with acceptOrders off inserted its events and ended
\* without calling the enqueue.
C8_Witness ==
  /\ ~acceptOrders /\ ~backfill /\ syncPc = "done"
  /\ makerInfos # <<>> /\ committed # {} /\ enqueueCalls = <<>>
  /\ AllStored(nftTransferEvents, transferEvents)

\* C9: the step in which the enqueue rejects changes no table; in the retry of
\* that invocation a store add whose events are still stored changes no
\* table, and once its adds have resolved the retry calls the enqueue with the
\* batch the failed call was given.
C9_QueueFailureDecoupled ==
  [][/\ (syncPc = "enqueue" /\ syncPc' = "failed") =>
          /\ storeVars' = storeVars
          /\ failedAt' = "enqueue"
     /\ (isRetry /\ ApprovalsAdded /\ AllStored(nftApprovalEvents, approvalEvents)) =>
          storeVars' = storeVars
     /\ (isRetry /\ TransfersAdded /\ AllStored(nftTransferEvents, transferEvents)) =>
          storeVars' = storeVars
     /\ (isRetry /\ TransfersAdded) =>
          /\ syncPc' = "enqueue"
          /\ enqueueCalls' = <<failedBatch>>]_vars

\* The retry of an invocation whose enqueue failed has completed: it inserted
\* nothing, the events are stored, and the enqueue got the same batch again.
C9_Witness ==
  /\ isRetry /\ syncPc = "done" /\ fixPc = "idle"
  /\ failedBatch # <<>> /\ enqueueCalls = <<failedBatch>>
  /\ committed = {}
  /\ approvalEvents # <<>> /\ transferEvents # <<>>
  /\ AllStored(nftApprovalEvents, approvalEvents)
  /\ AllStored(nftTransferEvents, transferEvents)

\* C10: a removal of fixCallback(B) that finds no row with block hash B can
\* resolve and changes no table; and a fixCallback(B) called right after a
\* completed fixCallback(B) changes no table.
C10_FixIdempotent ==
  /\ [](fixPc = "removeApprovals" => ENABLED RemoveNftApprovalEvents)
  /\ [](fixPc = "removeTransfers" => ENABLED RemoveNftTransferEvents)
  /\ [][/\ (ApprovalsRemoved /\ RowsOfBlock(nftApprovalEvents, fixBlockHash) = {}) =>
             storeVars' = storeVars
        /\ (TransfersRemoved /\ RowsOfBlock(nftTransferEvents, fixBlockHash) = {}) =>
             storeVars' = storeVars
        /\ ((ApprovalsRemoved \/ TransfersRemoved) /\ lastFixed = fixBlockHash) =>
             storeVars' = storeVars]_vars

\* A second fixCallback(B) in a row has made its first removal, on a store
\* that still holds rows of the other block.
C10_Witness ==
  /\ fixPc = "removeTransfers" /\ lastFixed = fixBlockHash
  /\ Rows(nftTransferEvents) # {}

----------------------------------------------------------------------------
\* What a log is, read off the raw log: whether it carries the metadata
\* parseEvent needs, and whether its topics and data hold the arguments of a
\* Transfer (three indexed, or two indexed and one data word) or of an
\* ApprovalForAll (two indexed and one data word).

HasMetadata(log) ==
  log.blockHash # Absent /\ log.transactionHash # Absent /\ log.logIndex >= 0

IsStandardTransfer(log) ==
  HasMetadata(log) /\ log.topics[1] = TransferTopic /\ Len(log.topics) >= 4

IsFallbackTransfer(log) ==
  /\ HasMetadata(log) /\ log.topics[1] = TransferTopic
  /\ Len(log.topics) = 3 /\ Len(log.data) >= 1

IsTransfer(log) == IsStandardTransfer(log) \/ IsFallbackTransfer(log)

IsApprovalForAll(log) ==
  /\ HasMetadata(log) /\ log.topics[1] = ApprovalForAllTopic
  /\ Len(log.topics) >= 3 /\ Len(log.data) >= 1

\* The MakerInfo entries of transfers carry a tokenId, those of approvals an
\* operator.
OfTransfer(m) == "tokenId" \in DOMAIN m

OfApproval(m) == "operator" \in DOMAIN m

\* The loop has run: the locals hold what it accumulated from `logs`.
Decoded == syncPc # "idle"

\* C11: each decoded Transfer log contributes exactly one transfer event and
\* exactly two MakerInfo entries, the first with maker = from and the second
\* with maker = to, both with side "sell" and both carrying the contract and
\* the tokenId of the transfer.
C11_TransferFanOut ==
  Decoded =>
    LET sent == SelectSeq(logs, IsTransfer)
        made == SelectSeq(makerInfos, OfTransfer)
    IN  /\ Len(transferEvents) = Len(sent)
        /\ Len(made) = 2 * Len(sent)
        /\ \A k \in 1..Len(sent) :
             LET e == transferEvents[k]
                 sender == made[2 * k - 1]
                 receiver == made[2 * k]
             IN  /\ e.from = ToLowerCase(sent[k].topics[2])
                 /\ e.to = ToLowerCase(sent[k].topics[3])
                 /\ e.baseParams.logIndex = sent[k].logIndex
                 /\ sender.maker = e.from
                 /\ receiver.maker = e.to
                 /\ \A m \in {sender, receiver} :
                      /\ m.side = "sell"
                      /\ m.contract = ToLowerCase(sent[k].address)
                      /\ m.tokenId = e.tokenId

\* A batch with two decodable Transfer logs has been decoded into two events
\* and four MakerInfo entries.
C11_Witness ==
  /\ syncPc = "done"
  /\ Len(SelectSeq(logs, IsTransfer)) = 2
  /\ Len(transferEvents) = 2
  /\ Len(makerInfos) = 4
  /\ makerInfos[1].maker # makerInfos[2].maker

\* C12: each decoded ApprovalForAll log contributes exactly one approval event
\* {owner, operator, approved} and exactly one MakerInfo entry with
\* maker = owner, the same operator and approved, checkApproval = true and no
\* tokenId.
C12_ApprovalFanOut ==
  Decoded =>
    LET granted == SelectSeq(logs, IsApprovalForAll)
        made == SelectSeq(makerInfos, OfApproval)
    IN  /\ Len(approvalEvents) = Len(granted)
        /\ Len(made) = Len(granted)
        /\ \A k \in 1..Len(granted) :
             LET e == approvalEvents[k]
                 m == made[k]
             IN  /\ DOMAIN e = {"owner", "operator", "approved", "baseParams"}
                 /\ e.owner = ToLowerCase(granted[k].topics[2])
                 /\ e.operator = ToLowerCase(granted[k].topics[3])
                 /\ e.approved = granted[k].data[1]
                 /\ e.baseParams.logIndex = granted[k].logIndex
                 /\ m.maker = e.owner
                 /\ m.operator = e.operator
                 /\ m.approved = e.approved
                 /\ m.checkApproval = TRUE
                 /\ ~OfTransfer(m)

\* A batch with an ApprovalForAll log (operator 0xB2 in the log, 0xb2 in the
\* event) has been decoded into one event and one MakerInfo entry.
C12_Witness ==
  /\ syncPc = "done"
  /\ Len(SelectSeq(logs, IsApprovalForAll)) = 1
  /\ Len(approvalEvents) = 1
  /\ approvalEvents[1].operator = "0xb2"
  /\ Len(SelectSeq(makerInfos, OfApproval)) = 1

\* A log the loop cannot turn into an event: no metadata, or the topic of a
\* handled event with too few arguments.
FailsToDecode(log) ==
  \/ ~HasMetadata(log)
  \/ log.topics[1] = TransferTopic /\ ~IsTransfer(log)
  \/ log.topics[1] = ApprovalForAllTopic /\ ~IsApprovalForAll(log)

\* C13: a Transfer log is decoded with the primary table first (its tokenId is
\* the third indexed argument whenever that table decodes the log) and with
\* the non-standard table only otherwise (tokenId from the data); a log only
\* the non-standard table decodes yields a transfer event with amount "1" and
\* two MakerInfo entries of the usual shape; a Transfer log neither table
\* decodes yields no event and no MakerInfo and is logged as a failure.
C13_FallbackDecodeOrder ==
  Decoded =>
    LET sent == SelectSeq(logs, IsTransfer)
        made == SelectSeq(makerInfos, OfTransfer)
    IN  /\ Len(transferEvents) = Len(sent)
        /\ Len(made) = 2 * Len(sent)
        /\ errorsLogged = Len(SelectSeq(logs, FailsToDecode))
        /\ \A k \in 1..Len(sent) :
             LET e == transferEvents[k]
             IN  /\ IsStandardTransfer(sent[k]) =>
                      e.tokenId = toString(sent[k].topics[4])
                 /\ IsFallbackTransfer(sent[k]) =>
                      e.tokenId = toString(sent[k].data[1])
                 /\ e.amount = "1"
                 /\ \A m \in {made[2 * k - 1], made[2 * k]} :
                      /\ DOMAIN m = {"context", "side", "maker", "contract", "tokenId"}
                      /\ m.tokenId = e.tokenId

\* A batch with a Transfer both tables decode, a Transfer only the
\* non-standard table decodes and a Transfer neither decodes has been decoded
\* into tokens "7" and "12" and one logged failure.
C13_Witness ==
  /\ syncPc = "done"
  /\ \E i, j, k \in 1..Len(logs) :
       /\ IsStandardTransfer(logs[i]) /\ Len(logs[i].data) >= 1
       /\ IsFallbackTransfer(logs[j])
       /\ logs[k].topics[1] = TransferTopic /\ HasMetadata(logs[k])
       /\ ~IsTransfer(logs[k])
  /\ {e.tokenId : e \in Range(transferEvents)} = {"7", "12"}
  /\ Len(makerInfos) = 4
  /\ errorsLogged = 1

\* C14: however many logs of a batch fail to parse or decode, syncCallback
\* does not raise because of them: each failing log is logged and skipped, the
\* events of the other logs are all accumulated, the invocation goes on to
\* its awaited calls, and it ends in failure only when one of those rejects.
C14_DecodeFailureIsolation ==
  /\ Decoded =>
       /\ errorsLogged = Len(SelectSeq(logs, FailsToDecode))
       /\ Len(transferEvents) = Len(SelectSeq(logs, IsTransfer))
       /\ Len(approvalEvents) = Len(SelectSeq(logs, IsApprovalForAll))
  /\ syncPc = "failed" =>
       failedAt \in {"addNftApprovalEvents", "addNftTransferEvents", "enqueue"}
  /\ syncPc = "addApprovals" => ENABLED AddNftApprovalEvents
  /\ syncPc = "addTransfers" => ENABLED AddNftTransferEvents
  /\ syncPc = "enqueue" => ENABLED AddToOrdersUpdateByMakerQueue

\* A batch in which two logs fail and a third decodes has gone through: two
\* failures logged, the event stored, the invocation done.
C14_Witness ==
  /\ syncPc = "done"
  /\ Len(logs) = 3
  /\ Len(SelectSeq(logs, FailsToDecode)) = 2
  /\ errorsLogged = 2
  /\ Len(transferEvents) + Len(approvalEvents) = 1
  /\ Rows(nftTransferEvents) \cup Rows(nftApprovalEvents) # {}

\* A step of the syncCallback invocation, its start included.
SyncStep == syncPc' # syncPc

\* C15: a stored row leaves its table only in the removal step of a
\* fixCallback called with that row's block hash; no step of syncCallback,
\* resolving or rejecting, removes a row or changes one (a row is the whole
\* of its fields), so over any sequence of invocations the rows only grow.
C15_DeletedOnlyByFix ==
  [][/\ \A r \in Rows(nftApprovalEvents) \ Rows(nftApprovalEvents') :
          ApprovalsRemoved /\ r.baseParams.blockHash = fixBlockHash
     /\ \A r \in Rows(nftTransferEvents) \ Rows(nftTransferEvents') :
          TransfersRemoved /\ r.baseParams.blockHash = fixBlockHash
     /\ SyncStep =>
          /\ \A r \in Rows(nftApprovalEvents) :
               r \in Rows(nftApprovalEvents') /\ nftApprovalEvents'[r] = nftApprovalEvents[r]
          /\ \A r \in Rows(nftTransferEvents) :
               r \in Rows(nftTransferEvents') /\ nftTransferEvents'[r] = nftTransferEvents[r]]_vars

\* An invocation has failed at its enqueue over a store that held rows of an
\* earlier invocation: its own rows and the earlier ones are all there, and
\* no fixCallback was ever called.
C15_Witness ==
  /\ syncPc = "failed" /\ failedAt = "enqueue" /\ fixPc = "idle"
  /\ committed # {}
  /\ committed \subseteq Rows(nftApprovalEvents) \cup Rows(nftTransferEvents)
  /\ (Rows(nftApprovalEvents) \cup Rows(nftTransferEvents)) \ committed # {}

\* C16: no two distinct MakerInfo entries produced by one syncCallback
\* invocation share a context, so that a consumer that drops an entry whose
\* context it has seen still processes the sender's and the receiver's entry
\* of every transfer.
C16_DistinctContexts ==
  \A i, j \in 1..Len(makerInfos) :
    makerInfos[i] # makerInfos[j] => makerInfos[i].context # makerInfos[j].context

\* Positions within a block, (txIndex, logIndex), and their order.
LogKeys(ls) == [k \in 1..Len(ls) |-> <<ls[k].transactionIndex, ls[k].logIndex>>]

EventKeys(events) ==
  [k \in 1..Len(events) |->
     <<events[k].baseParams.txIndex, events[k].baseParams.logIndex>>]

Before(a, b) == a[1] < b[1] \/ (a[1] = b[1] /\ a[2] <= b[2])

Ascending(keys) == \A k \in 1..(Len(keys) - 1) : Before(keys[k], keys[k + 1])

\* The context of a log and of an event, spelled out.
LogContext(log) == log.transactionHash \o "-" \o toString(log.logIndex)

EventContext(e) == e.baseParams.txHash \o "-" \o toString(e.baseParams.logIndex)

\* The position of the event each MakerInfo entry was derived from.
MakerKeys ==
  [k \in 1..Len(makerInfos) |->
     LET e == CHOOSE x \in Range(approvalEvents) \cup Range(transferEvents) :
                EventContext(x) = makerInfos[k].context
     IN  <<e.baseParams.txIndex, e.baseParams.logIndex>>]

\* The decodable logs of a batch in its order, one per MakerInfo entry they
\* yield: a Transfer twice, an ApprovalForAll once.
RECURSIVE Sources(_)
Sources(ls) ==
  IF ls = <<>> THEN <<>>
  ELSE LET log == Head(ls)
       IN  (IF IsTransfer(log) THEN <<log, log>>
            ELSE IF IsApprovalForAll(log) THEN <<log>>
            ELSE <<>>) \o Sources(Tail(ls))

\* C17 as stated: within one invocation the logs are processed in ascending
\* (txIndex, logIndex) order, so the approval batch, the transfer batch and
\* the MakerInfo batch each list their entries in ascending order.
C17_AscendingOrder ==
  Decoded =>
    /\ Ascending(EventKeys(approvalEvents))
    /\ Ascending(EventKeys(transferEvents))
    /\ Ascending(MakerKeys)

\* C17 amended: within one invocation the logs are processed in the order of
\* the `logs` array, so each of the three batches lists its entries in that
\* order; they are in ascending (txIndex, logIndex) order whenever the logs
\* were handed over so.
C17_InputOrder ==
  Decoded =>
    /\ EventKeys(approvalEvents) = LogKeys(SelectSeq(logs, IsApprovalForAll))
    /\ EventKeys(transferEvents) = LogKeys(SelectSeq(logs, IsTransfer))
    /\ Len(makerInfos) = Len(Sources(logs))
    /\ \A k \in 1..Len(makerInfos) :
         makerInfos[k].context = LogContext(Sources(logs)[k])
    /\ Ascending(LogKeys(logs)) =>
         /\ Ascending(EventKeys(approvalEvents))
         /\ Ascending(EventKeys(transferEvents))
         /\ Ascending(MakerKeys)

\* A batch of two Transfer logs around an ApprovalForAll log, handed over in
\* ascending order, has been decoded into five MakerInfo entries.
C17_Witness ==
  /\ syncPc = "done"
  /\ Len(logs) = 3
  /\ Ascending(LogKeys(logs))
  /\ logs[1] # logs[2] /\ logs[2] # logs[3]
  /\ IsTransfer(logs[1]) /\ IsApprovalForAll(logs[2]) /\ IsTransfer(logs[3])
  /\ Len(makerInfos) = 5

\* C18: addToOrdersUpdateByMakerQueue is invoked only once both store adds of
\* the invocation have resolved: the call is made in the step in which
\* addNftTransferEvents resolves (addNftApprovalEvents having resolved
\* before), never while an add is pending, and an invocation that ended in
\* the rejection of either add has made no call.
C18_PersistBeforeFanOut ==
  /\ [](/\ syncPc \in {"addApprovals", "addTransfers"} => ~EnqueueInvoked
        /\ (syncPc = "failed" /\ failedAt \in {"addNftApprovalEvents",
                                                "addNftTransferEvents"})
             => ~EnqueueInvoked)
  /\ [][(~EnqueueInvoked /\ EnqueueInvoked') =>
          /\ TransfersAdded
          /\ AllStored(nftTransferEvents', transferEvents)]_vars

\* A live invocation that derived maker infos with acceptOrders on has ended
\* in the rejection of addNftTransferEvents, its approvals stored, and has
\* called the queue not once.
C18_Witness ==
  /\ syncPc = "failed" /\ failedAt = "addNftTransferEvents"
  /\ ~backfill /\ acceptOrders
  /\ makerInfos # <<>>
  /\ committed # {}
  /\ enqueueCalls = <<>>

\* C19: every MakerInfo entry handed to addToOrdersUpdateByMakerQueue carries
\* the context (txHash-logIndex) of an event of the same invocation, and by
\* the time of the call that event is a row the invocation has stored; a log
\* that failed to decode or was ignored contributes no MakerInfo entry.
C19_MakerInfoOfStoredEvent ==
  /\ Decoded =>
       /\ \A m \in Range(makerInfos) :
            \E e \in Range(approvalEvents) \cup Range(transferEvents) :
              EventContext(e) = m.context
       /\ \A i \in 1..Len(logs) :
            ~(IsTransfer(logs[i]) \/ IsApprovalForAll(logs[i])) =>
              \A m \in Range(makerInfos) : m.context # LogContext(logs[i])
  /\ \A call \in Range(enqueueCalls) :
       \A m \in Range(call) :
         \E r \in committed :
           /\ r \in Rows(nftApprovalEvents) \cup Rows(nftTransferEvents)
           /\ EventContext(r) = m.context

\* The queue has been handed the three MakerInfo entries of a batch with a
\* Transfer, an ApprovalForAll and a log that failed to decode; the two
\* events are stored.
C19_Witness ==
  /\ enqueueCalls # <<>>
  /\ Len(enqueueCalls[1]) = 3
  /\ Len(logs) = 3
  /\ errorsLogged = 1
  /\ Cardinality(committed) = 2

\* A well-formed log of an event the switch has no case for.
IsOtherEvent(log) ==
  HasMetadata(log) /\ log.topics[1] \notin {TransferTopic, ApprovalForAllTopic}

IsHandled(log) == ~IsOtherEvent(log)

\* C20: a well-formed log whose topic is neither Transfer nor ApprovalForAll
\* is ignored silently: it adds no event and no MakerInfo entry, no failure
\* is logged for it, and the other logs of the batch yield what they yield
\* without it.
C20_OtherTopicIgnored ==
  Decoded =>
    LET others == SelectSeq(logs, IsOtherEvent)
        handled == SelectSeq(logs, IsHandled)
    IN  /\ errorsLogged = Len(SelectSeq(handled, FailsToDecode))
        /\ EventKeys(approvalEvents) = LogKeys(SelectSeq(handled, IsApprovalForAll))
        /\ EventKeys(transferEvents) = LogKeys(SelectSeq(handled, IsTransfer))
        /\ Len(makerInfos) = Len(Sources(handled))
        /\ \A k \in 1..Len(makerInfos) :
             makerInfos[k].context = LogContext(Sources(handled)[k])
        /\ \A log \in Range(others) :
             /\ \A e \in Range(approvalEvents) \cup Range(transferEvents) :
                  EventContext(e) # LogContext(log)
             /\ \A m \in Range(makerInfos) : m.context # LogContext(log)
        /\ handled = <<>> =>
             /\ approvalEvents = <<>> /\ transferEvents = <<>> /\ makerInfos = <<>>
             /\ errorsLogged = 0

\* A batch with a log of another event between a Transfer and a log that
\* fails has gone through: one event, two MakerInfo entries, one failure.
C20_Witness ==
  /\ syncPc = "done"
  /\ Len(logs) = 3
  /\ IsTransfer(logs[1]) /\ IsOtherEvent(logs[2]) /\ FailsToDecode(logs[3])
  /\ Len(transferEvents) = 1
  /\ Len(makerInfos) = 2
  /\ errorsLogged = 1

====
